---- MODULE Spec2Model ----
(***************************************************************************)
(* Model of mpi_wrappers/ProcessTree.py: the recursive growth of a tree of *)
(* PTNodes (grow_tree / PTNode.grow) and the protocol by which rank 0      *)
(* tells every MPI process its parent and children (ProcessTree.prepare,   *)
(* ProcessTree._send_parents_and_children).                                *)
(*                                                                         *)
(* PTNode objects live in an arena `nodes` (a sequence, index = object     *)
(* identity, in order of construction).  The Python call stack of          *)
(* PTNode.grow is the sequence `stack`; the call stack of                  *)
(* _send_parents_and_children is the sequence `sstack`.                    *)
(***************************************************************************)
EXTENDS Integers, Sequences, FiniteSets, TLC

\* ---------------------------------------------------------------- bounds
MaxBF == 3
MaxHeight == 3
MaxDesired == 28
\* bounds of the runs in which the processes exchange messages
MaxRanks == 6
MaxDistBF == 2
MaxDistHeight == 2
MaxDistDesired == 5

\* ------------------------------------------------------------- constants
\* PTNode._id before grow hands out an id (class attribute)
UnassignedId == -1
\* Python's None as the parent_id of a message (ids are >= -1)
NoneId == -2
\* the rank of the main process
Root0 == 0

VARIABLES
    branching_factor,   \* ProcessTree.branching_factor = GrowStatus.bf
    height,             \* ProcessTree.height = GrowStatus.height
    desired_leaves,     \* ProcessTree.desired_leaves = GrowStatus.desired_leaves
    nranks,             \* size of MPI.COMM_WORLD
    mode,               \* how MPI send completes: "buffered" or "rendezvous"
    num_nodes,          \* GrowStatus.num_nodes
    num_leaves,         \* GrowStatus.num_leaves
    nodes,              \* arena of PTNode objects
    stack,              \* call stack of PTNode.grow
    ret,                \* value returned by the last finished grow call
    pc,                 \* pc[r]: where rank r is in prepare
    sstack,             \* call stack of _send_parents_and_children
    mailbox,            \* mailbox[r]: messages from rank 0 waiting at rank r
    sentlog,            \* the sends completed so far, in order
    rec,                \* rec[r]: (parent_id, child_ids, leaf_sizes) of rank r
    raised,             \* the exception that ended prepare on rank 0, if any
    classattrs,         \* the class attributes of GrowStatus and of PTNode
    run,                \* number of calls of grow_tree so far
    first               \* what the first call of grow_tree returned

vars == <<branching_factor, height, desired_leaves, nranks, mode, num_nodes,
          num_leaves, nodes, stack, ret, pc, sstack, mailbox, sentlog, rec,
          raised, classattrs, run, first>>

params == <<branching_factor, height, desired_leaves, nranks, mode>>
growth == <<num_nodes, num_leaves, nodes, stack, ret>>
comm == <<sstack, mailbox, sentlog, rec, raised>>
runs == <<run, first>>

\* --------------------------------------------------------------- helpers
RECURSIVE Pow(_, _)
Pow(b, e) == IF e = 0 THEN 1 ELSE b * Pow(b, e - 1)

Last(s) == s[Len(s)]
Pop(s) == SubSeq(s, 1, Len(s) - 1)
ReplaceTop(s, f) == [s EXCEPT ![Len(s)] = f]

\* A PTNode right after PTNode(): every attribute still reads the class
\* attribute; `children` is not an attribute of the class, so it does not
\* exist until grow assigns it (has_children = FALSE).  parent = 0 is None.
NewPTNode_withchildren ==
    [_id |-> classattrs.PTNode._id, is_leaf |-> classattrs.PTNode.is_leaf,
     parent |-> classattrs.PTNode.parent, leaf_size |-> classattrs.PTNode.leaf_size,
     has_children |-> TRUE, children |-> <<>>]
NewPTNode ==
    [_id |-> classattrs.PTNode._id, is_leaf |-> classattrs.PTNode.is_leaf,
     parent |-> classattrs.PTNode.parent, leaf_size |-> classattrs.PTNode.leaf_size,
     has_children |-> FALSE, children |-> <<>>]

\* the class bodies, lines 95-96 and 108-111
ClassDefaults ==
    [GrowStatus |-> [num_nodes |-> 0, num_leaves |-> 0],
     PTNode |-> [is_leaf |-> FALSE, _id |-> UnassignedId, parent |-> 0,
                 leaf_size |-> 0]]

\* obj.attr = v and obj.attr += v (lines 133-158) make an attribute of the
\* instance; the attribute of the class keeps its value
StoreOnInstance_shared(cls, owner, attr, v) == [cls EXCEPT ![owner][attr] = v]
StoreOnInstance(cls, owner, attr, v) == cls

RECURSIVE StoreAll(_, _)
StoreAll(cls, ws) ==
    IF Len(ws) = 0 THEN cls
    ELSE StoreAll(StoreOnInstance(cls, ws[1][1], ws[1][2], ws[1][3]), Tail(ws))

\* A frame of PTNode.grow
Frame(n, d) == [self |-> n, depth |-> d, i |-> 0, at |-> "entry", child |-> 0]

\* line 127: the tree is already big enough
EnoughLeaves_strict == num_leaves > desired_leaves
EnoughLeaves_nonzero == num_leaves > 0 /\ num_leaves >= desired_leaves
EnoughLeaves_over == num_leaves >= desired_leaves + 1
EnoughLeaves == num_leaves >= desired_leaves

\* line 133: self._id = status.num_nodes
FreshId_leafcount == num_leaves
FreshId == num_nodes

\* line 139: this node is a leaf
AtHeight_deep(depth) == depth = height + 1
AtHeight_shallow(depth) == depth + 1 >= height
AtHeight(depth) == depth = height

\* line 150: for i in range(status.bf)
MoreChildren_offbyone(i) == i + 1 < branching_factor
MoreChildren(i) == i < branching_factor

\* line 157: self.children.append(potential_child)
AppendChild_front(children, c) == <<c>> \o children
AppendChild_replace(children, c) == <<c>>
AppendChild(children, c) == Append(children, c)

\* line 158: self.leaf_size += potential_child.leaf_size
AddLeafSize_count(mine, childs) == mine + 1
AddLeafSize(mine, childs) == mine + childs

\* ---------------------------------------------------------------- growth
\* prepare on rank 0 calls grow_tree: status = GrowStatus(..), root = PTNode(),
\* root.grow(status)
GrowTree ==
    /\ pc[Root0] = "start"
    /\ pc' = [pc EXCEPT ![Root0] = "grow"]
    /\ run' = run + 1
    /\ num_nodes' = classattrs.GrowStatus.num_nodes
    /\ num_leaves' = classattrs.GrowStatus.num_leaves
    /\ nodes' = <<NewPTNode>>
    /\ stack' = <<Frame(1, 0)>>
    /\ ret' = "none"
    /\ UNCHANGED <<params, first, classattrs, comm>>

\* lines 127-129: return False, the node is not useful
GrowReject_counted ==
    /\ stack # <<>>
    /\ Last(stack).at = "entry"
    /\ EnoughLeaves
    /\ nodes' = [nodes EXCEPT ![Last(stack).self] = [@ EXCEPT !._id = FreshId]]
    /\ num_nodes' = num_nodes + 1
    /\ stack' = Pop(stack)
    /\ ret' = "False"
    /\ UNCHANGED <<params, runs, classattrs, comm, pc, num_leaves>>
GrowReject ==
    /\ stack # <<>>
    /\ Last(stack).at = "entry"
    /\ EnoughLeaves
    /\ stack' = Pop(stack)
    /\ ret' = "False"
    /\ UNCHANGED <<params, runs, classattrs, comm, pc, num_nodes, num_leaves, nodes>>

\* lines 133-144: hand out an id, the node is a leaf, return True
GrowLeaf ==
    /\ stack # <<>>
    /\ Last(stack).at = "entry"
    /\ ~EnoughLeaves
    /\ AtHeight(Last(stack).depth)
    /\ LET n == Last(stack).self IN
         nodes' = [nodes EXCEPT ![n] = [@ EXCEPT !._id = FreshId,
                                                 !.has_children = TRUE,
                                                 !.children = <<>>,
                                                 !.is_leaf = TRUE,
                                                 !.leaf_size = 1]]
    /\ num_nodes' = num_nodes + 1
    /\ num_leaves' = num_leaves + 1
    /\ classattrs' = StoreAll(classattrs,
                              <<<<"PTNode", "_id", FreshId>>,
                                <<"GrowStatus", "num_nodes", num_nodes + 1>>,
                                <<"PTNode", "is_leaf", TRUE>>,
                                <<"GrowStatus", "num_leaves", num_leaves + 1>>,
                                <<"PTNode", "leaf_size", 1>> >>)
    /\ stack' = Pop(stack)
    /\ ret' = "True"
    /\ UNCHANGED <<params, runs, comm, pc>>

\* lines 133-149: hand out an id, the node is internal, start the loop
GrowInternal ==
    /\ stack # <<>>
    /\ Last(stack).at = "entry"
    /\ ~EnoughLeaves
    /\ ~AtHeight(Last(stack).depth)
    /\ LET n == Last(stack).self IN
         nodes' = [nodes EXCEPT ![n] = [@ EXCEPT !._id = FreshId,
                                                 !.has_children = TRUE,
                                                 !.children = <<>>,
                                                 !.leaf_size = 0]]
    /\ num_nodes' = num_nodes + 1
    /\ classattrs' = StoreAll(classattrs,
                              <<<<"PTNode", "_id", FreshId>>,
                                <<"GrowStatus", "num_nodes", num_nodes + 1>>,
                                <<"PTNode", "leaf_size", 0>> >>)
    /\ stack' = ReplaceTop(stack, [Last(stack) EXCEPT !.at = "loop", !.i = 0])
    /\ UNCHANGED <<params, runs, comm, pc, num_leaves, ret>>

\* lines 150-153: potential_child = PTNode(); potential_child.grow(status, depth+1)
GrowChild ==
    /\ stack # <<>>
    /\ Last(stack).at = "loop"
    /\ MoreChildren(Last(stack).i)
    /\ nodes' = Append(nodes, NewPTNode)
    /\ stack' = Append(ReplaceTop(stack, [Last(stack) EXCEPT !.at = "called",
                                                          !.child = Len(nodes) + 1]),
                       Frame(Len(nodes) + 1, Last(stack).depth + 1))
    /\ UNCHANGED <<params, runs, classattrs, comm, pc, num_nodes, num_leaves, ret>>

\* lines 155-158: the call returned True: attach the child
GrowAttach ==
    /\ stack # <<>>
    /\ Last(stack).at = "called"
    /\ ret = "True"
    /\ LET n == Last(stack).self
           c == Last(stack).child IN
         nodes' = [nodes EXCEPT
                     ![c] = [@ EXCEPT !.parent = n],
                     ![n] = [@ EXCEPT !.children = AppendChild(@, c),
                                      !.leaf_size = AddLeafSize(@, nodes[c].leaf_size)]]
    /\ classattrs' = StoreAll(classattrs,
                              <<<<"PTNode", "parent", Last(stack).self>>,
                                <<"PTNode", "leaf_size",
                                  AddLeafSize(nodes[Last(stack).self].leaf_size,
                                              nodes[Last(stack).child].leaf_size)>> >>)
    /\ stack' = ReplaceTop(stack, [Last(stack) EXCEPT !.at = "loop", !.i = @ + 1])
    /\ UNCHANGED <<params, runs, comm, pc, num_nodes, num_leaves, ret>>

\* line 155: the call returned False: discard the potential child
GrowDiscard ==
    /\ stack # <<>>
    /\ Last(stack).at = "called"
    /\ ret = "False"
    /\ stack' = ReplaceTop(stack, [Last(stack) EXCEPT !.at = "loop", !.i = @ + 1])
    /\ UNCHANGED <<params, runs, classattrs, comm, pc, num_nodes, num_leaves, nodes, ret>>

\* line 164: the loop is over, return True
GrowDone ==
    /\ stack # <<>>
    /\ Last(stack).at = "loop"
    /\ ~MoreChildren(Last(stack).i)
    /\ stack' = Pop(stack)
    /\ ret' = "True"
    /\ UNCHANGED <<params, runs, classattrs, comm, pc, num_nodes, num_leaves, nodes>>

\* line 91 and line 44: grow_tree returns (root, status) to prepare, which
\* goes on to call _send_parents_and_children(self.root) (line 46)
GrowTreeReturn ==
    /\ pc[Root0] = "grow"
    /\ stack = <<>>
    /\ pc' = [pc EXCEPT ![Root0] = "send"]
    /\ sstack' = <<[ptnode |-> 1, at |-> "entry", i |-> 0]>>
    /\ UNCHANGED <<params, runs, classattrs, growth, mailbox, sentlog, rec, raised>>

NextGrow ==
    \/ GrowTree
    \/ GrowReject
    \/ GrowLeaf
    \/ GrowInternal
    \/ GrowChild
    \/ GrowAttach
    \/ GrowDiscard
    \/ GrowDone
    \/ GrowTreeReturn

\* the state before any process has called prepare
InitState(bf, h, d, n, m) ==
    /\ branching_factor = bf
    /\ height = h
    /\ desired_leaves = d
    /\ nranks = n
    /\ mode = m
    /\ num_nodes = 0
    /\ num_leaves = 0
    /\ nodes = <<>>
    /\ stack = <<>>
    /\ ret = "none"
    /\ pc = [r \in 0..(n - 1) |-> "start"]
    /\ sstack = <<>>
    /\ mailbox = [r \in 0..(n - 1) |-> <<>>]
    /\ sentlog = <<>>
    \* __init__, lines 31-33
    /\ rec = [r \in 0..(n - 1) |->
                [parent_id |-> NoneId, child_ids |-> <<>>, leaf_sizes |-> <<>>]]
    /\ raised = [kind |-> "none", dest |-> NoneId]
    /\ classattrs = ClassDefaults
    /\ run = 0
    /\ first = [nodes |-> <<>>, num_nodes |-> 0, num_leaves |-> 0, ret |-> "none"]

\* growth alone: the main process on its own
InitGrow ==
    \E bf \in 1..MaxBF, h \in 0..MaxHeight, d \in (0 - 1)..MaxDesired :
        InitState(bf, h, d, 1, "buffered")

SpecGrow == InitGrow /\ [][NextGrow]_vars

\* grow has no suspension point: the main process keeps stepping
FairGrow == SpecGrow /\ WF_vars(NextGrow)

\* a second call of grow_tree (lines 86-89) with the same arguments, made in
\* the same process once the first call has returned; the result of the
\* first call is kept in `first`
GrowTreeAgain ==
    /\ pc[Root0] = "send"
    /\ run = 1
    /\ first' = [nodes |-> nodes, num_nodes |-> num_nodes,
                 num_leaves |-> num_leaves, ret |-> ret]
    /\ run' = run + 1
    /\ pc' = [pc EXCEPT ![Root0] = "grow"]
    /\ num_nodes' = classattrs.GrowStatus.num_nodes
    /\ num_leaves' = classattrs.GrowStatus.num_leaves
    /\ nodes' = <<NewPTNode>>
    /\ stack' = <<Frame(1, 0)>>
    /\ ret' = "none"
    /\ sstack' = <<>>
    /\ UNCHANGED <<params, classattrs, mailbox, sentlog, rec, raised>>

NextTwice == NextGrow \/ GrowTreeAgain

SpecTwice == InitGrow /\ [][NextTwice]_vars

\* ------------------------------------------------- reading the grown tree
\* the nodes of the subtree of n, following the children lists
RECURSIVE Subtree(_)
Subtree(n) ==
    {n} \cup UNION {Subtree(nodes[n].children[k]) : k \in 1..Len(nodes[n].children)}

\* the nodes reachable from the root (the first PTNode made by grow_tree)
Reach == IF nodes = <<>> THEN {} ELSE Subtree(1)

\* depth of an attached node: the length of its parent chain
RECURSIVE Depth(_)
Depth(n) == IF nodes[n].parent = 0 THEN 0 ELSE 1 + Depth(nodes[n].parent)

Leaves(n) == {m \in Subtree(n) : nodes[m].is_leaf}

RECURSIVE SumSeq(_)
SumSeq(s) == IF s = <<>> THEN 0 ELSE s[1] + SumSeq(Tail(s))

\* get_child_ids, line 167
get_child_ids(n) == [k \in 1..Len(nodes[n].children) |-> nodes[nodes[n].children[k]]._id]

\* get_child_leaf_sizes, line 170
get_child_leaf_sizes(n) ==
    [k \in 1..Len(nodes[n].children) |-> nodes[nodes[n].children[k]].leaf_size]

\* grow_tree has returned to prepare
GrowthFinished == pc[Root0] \notin {"start", "grow"}

ValidShape == desired_leaves >= 1 /\ desired_leaves <= Pow(branching_factor, height)

\* ---------------------------------------------------------- distribution
\* lines 61-64: the parent_id of the message for ptnode
ParentId_own(n) == nodes[n]._id
ParentId(n) == IF nodes[n].parent = 0 THEN NoneId ELSE nodes[nodes[n].parent]._id

\* line 68: dest=ptnode._id
Dest_self(n) == Root0
Dest_shifted(n) == nodes[n]._id + 1
Dest(n) == nodes[n]._id

\* line 71: for child in ptnode.children
MoreToTell_offbyone(n, i) == i + 1 < Len(nodes[n].children)
MoreToTell(n, i) == i < Len(nodes[n].children)

\* MPI.COMM_WORLD.send, line 68: a buffered send completes at once, a
\* synchronous one only once the destination has posted its receive
CanComplete(dest) == mode = "buffered" \/ pc[dest] = "recv"

\* lines 61-68: build the message of ptnode and send it to rank ptnode._id
SendParentsAndChildren ==
    /\ pc[Root0] = "send"
    /\ sstack # <<>>
    /\ Last(sstack).at = "entry"
    /\ LET n == Last(sstack).ptnode IN
         /\ nodes[n].has_children
         /\ Dest(n) \in DOMAIN pc
         /\ CanComplete(Dest(n))
         /\ mailbox' = [mailbox EXCEPT ![Dest(n)] =
                          Append(@, [parent_id |-> ParentId(n),
                                     child_ids |-> get_child_ids(n),
                                     leaf_sizes |-> get_child_leaf_sizes(n)])]
         /\ sentlog' = Append(sentlog, [src |-> Root0, dest |-> Dest(n)])
    /\ sstack' = ReplaceTop(sstack, [Last(sstack) EXCEPT !.at = "loop", !.i = 0])
    /\ UNCHANGED <<params, runs, classattrs, growth, pc, rec, raised>>

\* lines 65 and 68 raising: ptnode.children does not exist (AttributeError in
\* get_child_ids), or ptnode._id is not a rank of COMM_WORLD (send raises);
\* the exception leaves prepare
SendFails ==
    /\ pc[Root0] = "send"
    /\ sstack # <<>>
    /\ Last(sstack).at = "entry"
    /\ LET n == Last(sstack).ptnode IN
         \/ /\ ~nodes[n].has_children
            /\ raised' = [kind |-> "AttributeError", dest |-> NoneId]
         \/ /\ nodes[n].has_children
            /\ Dest(n) \notin DOMAIN pc
            /\ raised' = [kind |-> "InvalidRank", dest |-> Dest(n)]
    /\ pc' = [pc EXCEPT ![Root0] = "error"]
    /\ sstack' = <<>>
    /\ UNCHANGED <<params, runs, classattrs, growth, mailbox, sentlog, rec>>

\* lines 71-72: the recursive call on the next child
SendRecurse ==
    /\ pc[Root0] = "send"
    /\ sstack # <<>>
    /\ Last(sstack).at = "loop"
    /\ MoreToTell(Last(sstack).ptnode, Last(sstack).i)
    /\ sstack' = Append(ReplaceTop(sstack, [Last(sstack) EXCEPT !.i = @ + 1]),
                        [ptnode |-> nodes[Last(sstack).ptnode].children[Last(sstack).i + 1],
                         at |-> "entry", i |-> 0])
    /\ UNCHANGED <<params, runs, classattrs, growth, pc, mailbox, sentlog, rec, raised>>

\* line 72 done: return; when the call on the root returns, prepare goes on
\* to its own receive (line 50)
SendReturn ==
    /\ pc[Root0] = "send"
    /\ sstack # <<>>
    /\ Last(sstack).at = "loop"
    /\ ~MoreToTell(Last(sstack).ptnode, Last(sstack).i)
    /\ sstack' = Pop(sstack)
    /\ pc' = IF Len(sstack) = 1 THEN [pc EXCEPT ![Root0] = "recv"] ELSE pc
    /\ UNCHANGED <<params, runs, classattrs, growth, mailbox, sentlog, rec, raised>>

\* lines 41-50 on a rank other than 0: go straight to the receive
PrepareOther(r) ==
    /\ r \in DOMAIN pc
    /\ r # Root0
    /\ pc[r] = "start"
    /\ pc' = [pc EXCEPT ![r] = "recv"]
    /\ UNCHANGED <<params, runs, classattrs, growth, comm>>

\* line 50: MPI.COMM_WORLD.recv(source=0) returns and the record is stored
Recv(r) ==
    /\ r \in DOMAIN pc
    /\ pc[r] = "recv"
    /\ mailbox[r] # <<>>
    /\ rec' = [rec EXCEPT ![r] = Head(mailbox[r])]
    /\ mailbox' = [mailbox EXCEPT ![r] = Tail(@)]
    /\ pc' = [pc EXCEPT ![r] = "done"]
    /\ UNCHANGED <<params, runs, classattrs, growth, sstack, sentlog, raised>>

NextDist ==
    \/ SendParentsAndChildren
    \/ SendFails
    \/ SendRecurse
    \/ SendReturn
    \/ \E r \in DOMAIN pc : PrepareOther(r)
    \/ \E r \in DOMAIN pc : Recv(r)

Next == NextGrow \/ NextDist

\* every process of COMM_WORLD calls prepare
Init ==
    \E bf \in 1..MaxDistBF, h \in 0..MaxDistHeight,
       d \in (0 - 1)..MaxDistDesired, n \in 1..MaxRanks,
       m \in {"buffered", "rendezvous"} :
        InitState(bf, h, d, n, m)

Spec == Init /\ [][Next]_vars

\* the steps of rank 0, and of a rank other than 0
CoordinatorStep ==
    NextGrow \/ SendParentsAndChildren \/ SendFails \/ SendRecurse \/ SendReturn
             \/ Recv(Root0)
RankStep(r) == PrepareOther(r) \/ Recv(r)

\* every process that can take a step eventually takes one
FairSpec ==
    /\ Spec
    /\ WF_vars(CoordinatorStep)
    /\ \A r \in 1..(MaxRanks - 1) : WF_vars(RankStep(r))

\* ------------------------------------------------------------------ claims

\* C1: for 1 <= desired_leaves <= branching_factor^height, grow_tree ends
\* with exactly desired_leaves leaves: the num_leaves counter and the number
\* of reachable nodes with is_leaf = True both equal desired_leaves.
C1_ExactLeaves ==
    (GrowthFinished /\ ValidShape) =>
        /\ num_leaves = desired_leaves
        /\ Cardinality({n \in Reach : nodes[n].is_leaf}) = desired_leaves

C1_Witness ==
    /\ GrowthFinished
    /\ branching_factor = 3 /\ height = 3 /\ desired_leaves = 15
    /\ Cardinality({n \in Reach : nodes[n].is_leaf}) = 15

\* C2: after grow_tree with desired_leaves >= 1 the ids of the reachable
\* nodes are exactly 0..num_nodes-1, none used twice, none left at -1, and
\* they are in pre-order: root 0, a node's id below every id of its subtree,
\* ids of a node's children strictly increasing along the children list.
C2_PreorderIds ==
    (GrowthFinished /\ desired_leaves >= 1) =>
        /\ {nodes[n]._id : n \in Reach} = 0..(num_nodes - 1)
        /\ Cardinality(Reach) = num_nodes
        /\ \A n \in Reach : nodes[n]._id # UnassignedId
        /\ nodes[1]._id = 0
        /\ \A n \in Reach : \A m \in Subtree(n) \ {n} : nodes[n]._id < nodes[m]._id
        /\ \A n \in Reach : \A k \in 1..(Len(nodes[n].children) - 1) :
              get_child_ids(n)[k] < get_child_ids(n)[k + 1]

C2_Witness ==
    /\ GrowthFinished
    /\ num_nodes >= 10
    /\ desired_leaves < Pow(branching_factor, height)
    /\ \E n \in Reach : Len(nodes[n].children) >= 2 /\ nodes[n].parent # 0

\* C3: after grow_tree every leaf has leaf_size 1, every internal node's
\* leaf_size is the sum of its attached children's leaf_size, and the root's
\* leaf_size equals the final num_leaves.
C3_LeafSizes ==
    GrowthFinished =>
        /\ \A n \in Reach :
              IF nodes[n].is_leaf
              THEN nodes[n].leaf_size = 1
              ELSE nodes[n].leaf_size = SumSeq(get_child_leaf_sizes(n))
        /\ nodes[1].leaf_size = num_leaves

C3_Witness ==
    /\ GrowthFinished
    /\ nodes[1].leaf_size = 15
    /\ \E n \in Reach : nodes[n].parent # 0 /\ nodes[n].leaf_size = 6
                         /\ Len(nodes[n].children) = 2

\* C9: when desired_leaves = branching_factor^height the tree is perfectly
\* balanced: every node above depth height has branching_factor children,
\* every leaf is at depth height, and num_nodes is the sum of
\* branching_factor^i for i = 0..height.
RECURSIVE FullSize(_, _)
FullSize(b, h) == IF h = 0 THEN 1 ELSE Pow(b, h) + FullSize(b, h - 1)

C9_Balanced ==
    (GrowthFinished /\ desired_leaves = Pow(branching_factor, height)) =>
        /\ \A n \in Reach :
              /\ Depth(n) < height => Len(nodes[n].children) = branching_factor
              /\ (nodes[n].is_leaf \/ nodes[n].children = <<>>) => Depth(n) = height
        /\ num_nodes = FullSize(branching_factor, height)
        /\ Cardinality(Reach) = num_nodes

C9_Witness ==
    /\ GrowthFinished
    /\ branching_factor = 3 /\ height = 2 /\ desired_leaves = 9
    /\ num_nodes = 13

\* C10: when 1 <= desired_leaves < branching_factor^height the leaves are
\* filled left to right: every attached child other than the last one of its
\* parent roots a complete subtree, so only nodes on the path from the root
\* through last children can have fewer than branching_factor children, and
\* at least one internal node has fewer.
RECURSIVE Complete(_, _)
Complete(n, d) ==
    IF d = height
    THEN nodes[n].is_leaf /\ nodes[n].children = <<>>
    ELSE /\ Len(nodes[n].children) = branching_factor
         /\ \A k \in 1..Len(nodes[n].children) : Complete(nodes[n].children[k], d + 1)

RECURSIVE OnLastPath(_)
OnLastPath(n) ==
    \/ nodes[n].parent = 0
    \/ /\ Last(nodes[nodes[n].parent].children) = n
       /\ OnLastPath(nodes[n].parent)

C10_LeftToRight ==
    (GrowthFinished /\ desired_leaves >= 1
                    /\ desired_leaves < Pow(branching_factor, height)) =>
        /\ \A n \in Reach : \A k \in 1..(Len(nodes[n].children) - 1) :
              LET c == nodes[n].children[k] IN
                /\ Complete(c, Depth(n) + 1)
                /\ Cardinality(Leaves(c)) = Pow(branching_factor, height - Depth(c))
        /\ \A n \in Reach :
              (Depth(n) < height /\ Len(nodes[n].children) < branching_factor)
                  => OnLastPath(n)
        /\ \E n \in Reach :
              Depth(n) < height /\ Len(nodes[n].children) < branching_factor

C10_Witness ==
    /\ GrowthFinished
    /\ branching_factor = 3 /\ height = 3 /\ desired_leaves = 15
    /\ Len(nodes[1].children) = 2
    /\ Len(nodes[nodes[1].children[2]].children) = 2
    /\ Complete(nodes[1].children[1], 1)

\* ------------------------------------------------ claims on the protocol
Range(f) == {f[k] : k \in DOMAIN f}
SentTo == {sentlog[k].dest : k \in 1..Len(sentlog)}

\* the reachable node that carries id r
NodeOfId(r) == CHOOSE n \in Reach : nodes[n]._id = r

\* the id of the node that has n in its children list
OwnerId(n) == nodes[CHOOSE m \in Reach : n \in Range(nodes[m].children)]._id

\* rank r has completed its receive
Received(r) == pc[r] = "done"

\* rank 0 has left _send_parents_and_children, normally or by an exception
DistributionOver == pc[Root0] \in {"recv", "done", "error"}

C5_Records ==
    /\ \A r \in DOMAIN pc : Received(r) =>
          /\ r \in 0..(num_nodes - 1)
          /\ LET n == NodeOfId(r) IN
                /\ (rec[r].parent_id = NoneId) <=> (r = 0)
                /\ r # 0 => rec[r].parent_id = OwnerId(n)
                /\ Len(rec[r].child_ids) = Len(nodes[n].children)
                /\ Len(rec[r].leaf_sizes) = Len(nodes[n].children)
                /\ \A k \in 1..Len(nodes[n].children) :
                      /\ rec[r].child_ids[k] = nodes[nodes[n].children[k]]._id
                      /\ rec[r].leaf_sizes[k] = nodes[nodes[n].children[k]].leaf_size
    /\ \A r \in DOMAIN pc : \A c \in DOMAIN pc :
          (Received(r) /\ Received(c)) =>
              ((c \in Range(rec[r].child_ids)) <=> (rec[c].parent_id = r))

C5_Witness ==
    /\ num_nodes >= 4
    /\ \A r \in 0..(num_nodes - 1) : r \in DOMAIN pc /\ Received(r)
    /\ \E r \in 1..(num_nodes - 1) : rec[r].child_ids # <<>>

\* C6: with buffered sends, desired_leaves >= 1 and at least num_nodes ranks
\* that all call prepare, every rank in [0, num_nodes), rank 0 included,
\* eventually completes its receive and holds its assignment, whatever the
\* order in which the ranks receive.
AllAssigned ==
    \A r \in 0..(num_nodes - 1) :
        /\ r \in DOMAIN pc
        /\ Received(r)
        /\ rec[r].child_ids = get_child_ids(NodeOfId(r))

C6_Start ==
    /\ pc[Root0] = "send"
    /\ mode = "buffered"
    /\ desired_leaves >= 1
    /\ nranks >= num_nodes

C6_EventuallyAssigned == C6_Start ~> AllAssigned

C6_Witness ==
    /\ mode = "buffered"
    /\ num_nodes >= 4
    /\ nranks > num_nodes
    /\ AllAssigned
    /\ \E r \in DOMAIN pc : pc[r] = "recv"

\* C7: rank 0 issues all of its num_nodes sends, the first of them to rank
\* 0, before it posts its own receive.  So with a synchronous send rank 0
\* never gets past its first send and no rank ever receives; with buffered
\* sends rank 0 is never blocked in its sends.
C7_SendsBeforeReceive ==
    /\ pc[Root0] \in {"recv", "done"} => Len(sentlog) = num_nodes
    /\ sentlog # <<>> => (sentlog[1].dest = Root0 /\ pc[Root0] # "start")
    /\ mode = "rendezvous" =>
          /\ sentlog = <<>>
          /\ pc[Root0] \notin {"recv", "done"}
          /\ \A r \in DOMAIN pc : ~Received(r)
          /\ (pc[Root0] = "send" /\ desired_leaves >= 1) => ~ENABLED CoordinatorStep
    /\ (mode = "buffered" /\ pc[Root0] = "send") => ENABLED CoordinatorStep

C7_Witness ==
    /\ mode = "rendezvous"
    /\ pc[Root0] = "send"
    /\ num_nodes >= 3
    /\ nranks >= num_nodes
    /\ \A r \in DOMAIN pc : r # Root0 => pc[r] = "recv"
    /\ ~ENABLED CoordinatorStep

\* C8: if the tree has more nodes than there are ranks, this is detected
\* after growth and before distribution: no message is sent and no rank
\* ends prepare holding an assignment.
C8_NoPartialDistribution ==
    (GrowthFinished /\ num_nodes > nranks) =>
        /\ sentlog = <<>>
        /\ \A r \in DOMAIN pc : ~Received(r)

\* --------------------------------------------- further claims on growth
\* C11: when branching_factor^height < desired_leaves, growth builds the
\* full balanced tree and stops with exactly branching_factor^height leaves,
\* fewer than requested; grow on the root still returns True and prepare
\* goes on without any error.
C11_SilentShortfall ==
    (GrowthFinished /\ Pow(branching_factor, height) < desired_leaves) =>
        /\ num_leaves = Pow(branching_factor, height)
        /\ num_leaves < desired_leaves
        /\ Cardinality(Leaves(1)) = num_leaves
        /\ Complete(1, 0)
        /\ num_nodes = FullSize(branching_factor, height)
        /\ ret = "True"
        /\ pc[Root0] = "send"

C11_Witness ==
    /\ GrowthFinished
    /\ branching_factor = 3 /\ height = 3 /\ desired_leaves = 28
    /\ num_leaves = 27
    /\ ret = "True"

\* C13: for desired_leaves >= 1 every node of the grown tree has depth at
\* most height, is a leaf if and only if its depth is height, and has an
\* empty children list if and only if it is a leaf; so every useful node
\* above depth height has at least one attached child and every attached
\* node has leaf_size >= 1.
C13_Shape ==
    (GrowthFinished /\ desired_leaves >= 1) =>
        \A n \in Reach :
            /\ Depth(n) <= height
            /\ nodes[n].is_leaf <=> (Depth(n) = height)
            /\ nodes[n].has_children
            /\ (nodes[n].children = <<>>) <=> nodes[n].is_leaf
            /\ Depth(n) < height => Len(nodes[n].children) >= 1
            /\ nodes[n].leaf_size >= 1

C13_Witness ==
    /\ GrowthFinished
    /\ height = 3
    /\ desired_leaves < Pow(branching_factor, height)
    /\ \E n \in Reach : Depth(n) = 2 /\ Len(nodes[n].children) = 1
                         /\ branching_factor > 1
    /\ \E n \in Reach : Depth(n) = 3 /\ nodes[n].is_leaf

\* C16: if desired_leaves <= 0, grow on the root returns False and the root
\* is returned unassigned: id -1, not a leaf, no children, and the counters
\* end at num_nodes = 0 and num_leaves = 0.
C16_UnassignedRoot ==
    (GrowthFinished /\ desired_leaves <= 0) =>
        /\ ret = "False"
        /\ Len(nodes) = 1
        /\ nodes[1]._id = UnassignedId
        /\ ~nodes[1].is_leaf
        /\ ~nodes[1].has_children
        /\ Reach = {1}
        /\ num_nodes = 0
        /\ num_leaves = 0

C16_Witness ==
    /\ GrowthFinished
    /\ desired_leaves = 0
    /\ height >= 1
    /\ ret = "False"

\* C18: in every state of a growth with desired_leaves >= 0, num_leaves <=
\* desired_leaves and num_leaves <= num_nodes, whatever the shape.
C18_NeverTooManyLeaves ==
    desired_leaves >= 0 =>
        /\ num_leaves <= desired_leaves
        /\ num_leaves <= num_nodes

C18_Witness ==
    /\ pc[Root0] = "grow"
    /\ stack # <<>>
    /\ Last(stack).at = "entry"
    /\ desired_leaves >= 2
    /\ num_leaves = desired_leaves
    /\ desired_leaves < Pow(branching_factor, height)

\* C14: a call grow(status, depth) returns False if and only if
\* num_leaves >= desired_leaves at the moment of entry; it then leaves
\* num_nodes and num_leaves unchanged, assigns no id (the id stays -1),
\* makes no recursive call, and the node is appended to no children list.
C14_Unattached ==
    \A n \in 1..Len(nodes) :
        nodes[n]._id = UnassignedId =>
            /\ ~nodes[n].has_children
            /\ nodes[n].parent = 0
            /\ \A m \in 1..Len(nodes) : n \notin Range(nodes[m].children)

C14_RejectStep ==
    (stack # <<>> /\ stack' # stack) =>
        LET f == Last(stack)
            enough == f.at = "entry" /\ num_leaves >= desired_leaves IN
          /\ (Len(stack') < Len(stack) /\ ret' = "False") <=> enough
          /\ enough =>
                /\ num_nodes' = num_nodes
                /\ num_leaves' = num_leaves
                /\ nodes' = nodes
                /\ nodes'[f.self]._id = UnassignedId
                /\ stack' = Pop(stack)
          /\ (f.at = "called" /\ ret = "False") => nodes' = nodes

C14_FalseIffEnough == []C14_Unattached /\ [][C14_RejectStep]_vars

C14_Witness ==
    /\ stack # <<>>
    /\ Last(stack).at = "loop"
    /\ Last(stack).i >= 2
    /\ ret = "False"
    /\ Len(nodes[Last(stack).self].children) = Last(stack).i - 1
    /\ nodes[Len(nodes)]._id = UnassignedId
    /\ num_leaves = desired_leaves

\* C15: for every branching_factor >= 1, height >= 0 and every integer
\* desired_leaves grow_tree terminates; the recursion is never deeper than
\* height levels below the root, a node attempts at most branching_factor
\* children, and nothing is undone: an id once assigned is never changed
\* and an attached child is never removed.
C15_Bounded ==
    /\ Len(stack) <= height + 1
    /\ \A k \in 1..Len(stack) :
          /\ stack[k].depth = k - 1
          /\ stack[k].depth <= height
          /\ stack[k].i <= branching_factor

C15_NoBacktrack ==
    \A n \in 1..Len(nodes) :
        /\ n \in 1..Len(nodes')
        /\ nodes[n]._id # UnassignedId => nodes'[n]._id = nodes[n]._id
        /\ Len(nodes'[n].children) >= Len(nodes[n].children)
        /\ SubSeq(nodes'[n].children, 1, Len(nodes[n].children)) = nodes[n].children

C15_Terminates ==
    /\ <>GrowthFinished
    /\ []C15_Bounded
    /\ [][C15_NoBacktrack]_vars

C15_Witness ==
    /\ GrowthFinished
    /\ branching_factor = 3 /\ height = 3 /\ desired_leaves = 28
    /\ num_nodes = 40
    /\ stack = <<>>

\* C12: growth is deterministic and carries no state between runs: a second
\* run of grow_tree with the same arguments in the same process starts, like
\* the first, from num_nodes = 0 and num_leaves = 0 and from a root with the
\* default attributes, and ends with the same tree shape, ids, leaf_size
\* values and counters, hence the same (parent_id, child_ids, leaf_sizes)
\* for every rank.
TripleIn(arena, n) ==
    [parent_id |-> IF arena[n].parent = 0 THEN NoneId ELSE arena[arena[n].parent]._id,
     child_ids |-> [k \in 1..Len(arena[n].children) |-> arena[arena[n].children[k]]._id],
     leaf_sizes |-> [k \in 1..Len(arena[n].children) |->
                       arena[arena[n].children[k]].leaf_size]]

TriplesByRank(arena) ==
    {<<arena[n]._id, TripleIn(arena, n)>> :
        n \in {m \in 1..Len(arena) : arena[m]._id # UnassignedId}}

RunStarting ==
    /\ pc[Root0] = "grow"
    /\ stack = <<Frame(1, 0)>>
    /\ Len(nodes) = 1

C12_SameTwice ==
    /\ RunStarting =>
          /\ num_nodes = 0
          /\ num_leaves = 0
          /\ nodes[1]._id = UnassignedId
          /\ ~nodes[1].is_leaf
          /\ nodes[1].parent = 0
          /\ nodes[1].leaf_size = 0
    /\ (run = 2 /\ GrowthFinished) =>
          /\ nodes = first.nodes
          /\ num_nodes = first.num_nodes
          /\ num_leaves = first.num_leaves
          /\ ret = first.ret
          /\ TriplesByRank(nodes) = TriplesByRank(first.nodes)
    /\ classattrs = ClassDefaults

C12_Witness ==
    /\ run = 2
    /\ GrowthFinished
    /\ branching_factor = 3 /\ height = 3 /\ desired_leaves = 15
    /\ first.num_leaves = 15
    /\ num_leaves = 15

\* ------------------------------------------ further claims on the protocol
\* C17 as stated: if desired_leaves <= 0, the distribution step of rank 0
\* attempts to send the assignment of the unassigned root to rank -1.
C17_AsStated ==
    (desired_leaves <= 0 /\ DistributionOver) =>
        /\ raised.kind = "InvalidRank"
        /\ raised.dest = UnassignedId

\* C17 (amended): if desired_leaves <= 0, the distribution step of rank 0
\* fails on the unassigned root before any send is attempted: the root has
\* no children attribute, so get_child_ids raises AttributeError; no message
\* is addressed to rank -1 or to any other rank and no rank receives.
C17_FailsBeforeSend ==
    (desired_leaves <= 0 /\ GrowthFinished) =>
        /\ sentlog = <<>>
        /\ \A r \in DOMAIN pc : mailbox[r] = <<>> /\ ~Received(r)
        /\ pc[Root0] \in {"send", "error"}
        /\ pc[Root0] = "send" =>
              /\ raised.kind = "none"
              /\ ENABLED SendFails
              /\ ~ENABLED SendParentsAndChildren
        /\ pc[Root0] = "error" => raised.kind = "AttributeError"
        /\ raised.dest = NoneId

C17_Witness ==
    /\ desired_leaves <= 0
    /\ pc[Root0] = "error"
    /\ raised.kind = "AttributeError"
    /\ nranks >= 2
    /\ \E r \in DOMAIN pc : pc[r] = "recv"

\* C19: if the process group is larger than the tree and all ranks call
\* prepare, every rank r with num_nodes <= r < N stays blocked forever in
\* its receive from rank 0: it never completes prepare and its record keeps
\* the values of __init__: parent_id = None, child_ids = [], leaf_sizes = [].
C19_Untouched ==
    \A r \in DOMAIN pc :
        r >= num_nodes =>
            /\ ~Received(r)
            /\ mailbox[r] = <<>>
            /\ rec[r] = [parent_id |-> NoneId, child_ids |-> <<>>, leaf_sizes |-> <<>>]

C19_AllWaiting ==
    /\ GrowthFinished
    /\ \A r \in DOMAIN pc : (r # Root0 /\ r >= num_nodes) => pc[r] = "recv"

C20_InOrder ==
    /\ \A k \in 1..Len(sentlog) : sentlog[k].dest = k - 1
    /\ sentlog # <<>> => (GrowthFinished /\ stack = <<>>)
    /\ (pc[Root0] = "send" /\ sstack # <<>> /\ Last(sstack).at = "entry"
          /\ nodes[Last(sstack).ptnode].has_children) =>
              nodes[Last(sstack).ptnode]._id = Len(sentlog)

C20_TreeFrozen ==
    GrowthFinished =>
        /\ nodes' = nodes
        /\ num_nodes' = num_nodes
        /\ num_leaves' = num_leaves

C20_OrderedSends == []C20_InOrder /\ [][C20_TreeFrozen]_vars

C20_Witness ==
    /\ pc[Root0] = "recv"
    /\ Len(sentlog) >= 5
    /\ sentlog[5].dest = 4
    /\ \E n \in Reach : nodes[n].parent # 0 /\ Len(nodes[n].children) = 2

====
